---- MODULE Spec2Model ----
(***************************************************************************)
(* Image + annotation persistence protocol of the Annothem backend.        *)
(*                                                                         *)
(* The relational store is PostgreSQL (READ COMMITTED) reached through one *)
(* SQLAlchemy session per request; the blob store is the Supabase bucket   *)
(* "images".  Every handler is cut at its calls to the two stores, so that *)
(* two requests interleave exactly where the server lets them.             *)
(*                                                                         *)
(* An Image row keeps id, storage_path and created_at; filename and        *)
(* public_url are copied from the request and from the path and are read   *)
(* by no handler, so they are left out of the row.                         *)
(***************************************************************************)
EXTENDS Integers, Sequences, FiniteSets

\* ---- bounds of the model ------------------------------------------------
MaxImages == 1          \* uploads started, annotation lifecycle (Spec)
MaxListed == 2          \* uploads started, image listing (SpecList)
MaxAnnotations == 2     \* INSERTs into the annotations table
MaxTime == 1            \* last value of the store's clock
MaxLimit == 2           \* largest skip / limit a list request carries

Procs == {"w1", "w2"}   \* requests being served at the same time

\* request bodies: ordered sequences of opaque objects
Payloads == { <<"rect", "circle">>, <<"circle", "rect">> }

VARIABLES
    images,        \* committed rows of table "images"
    annotations,   \* committed rows of table "annotations"
    blobs,         \* paths present in the bucket
    now,           \* the store's clock (func.now())
    nextImageId,   \* serial of images.id
    nextAnnId,     \* serial of annotations.id
    nextPath,      \* next value of uuid.uuid4()
    pc,            \* where each worker is in its handler
    req,           \* the request a worker is serving
    loc,           \* the handler's local variables and its open transaction
    last,          \* the request answered last, with its response
    raced,         \* history: a save of the same image committed while
                   \*   this worker's save was running
    seqSave        \* history: the save that succeeded last, while nothing
                   \*   but one later save of the same data has followed it

vars == << images, annotations, blobs, now, nextImageId, nextAnnId, nextPath,
           pc, req, loc, last, raced, seqSave >>

\* ---- requests, responses, locals ----------------------------------------
Request(op, id, data) == [op |-> op, id |-> id, data |-> data]

NoRequest == Request("none", 0, <<>>)

\* a response: the operation and the arguments of the request it answers,
\* the HTTP status, the body, and whether the handler printed its storage
\* warning on the way
Response(op, id, skip, limit, status, body, warned) ==
    [op |-> op, id |-> id, skip |-> skip, limit |-> limit,
     status |-> status, body |-> body, warned |-> warned]

NoResponse == Response("none", 0, 0, 0, 0, <<>>, FALSE)

NoLoc ==
    [path |-> 0, txStart |-> 0, existing |-> {}, image |-> {},
     warned |-> FALSE, delAnn |-> {}]

NoSeq == [id |-> 0, data |-> <<>>, upd |-> 0, by |-> "none"]

\* requests go to the first worker that is free (workers are interchangeable)
Before(p) == IF p = "w2" THEN {"w1"} ELSE {}

Free(p) == pc[p] = "idle" /\ \A q \in Before(p) : pc[q] # "idle"

\* the handler of worker p returns
Return(p) ==
    /\ pc' = [pc EXCEPT ![p] = "idle"]
    /\ req' = [req EXCEPT ![p] = NoRequest]
    /\ loc' = [loc EXCEPT ![p] = NoLoc]

\* ---- the tables ---------------------------------------------------------
ImageRow(id, path, t) == [id |-> id, storage_path |-> path, created_at |-> t]

AnnotationRow(id, image_id, data, t) ==
    [id |-> id, image_id |-> image_id, data |-> data, updated_at |-> t]

ImagesById(imgs, id) == { i \in imgs : i.id = id }

AnnotationsOf(anns, image_id) == { a \in anns : a.image_id = image_id }

\* annotations.image_id REFERENCES images(id): what the store checks when a
\* unit of work that inserted an annotation or deleted an image commits.
ForeignKeyOff(anns, imgs) == TRUE

ForeignKeyOk(anns, imgs) ==
    \A a \in anns : \E i \in imgs : i.id = a.image_id

\* rows a delete_image still in flight has deleted and therefore holds locked
LockedBy(p) == IF pc[p] = "d_commit" THEN loc[p].delAnn ELSE {}

LockedByOthers(p) == UNION { LockedBy(q) : q \in Procs \ {p} }

\* ---- GET /images --------------------------------------------------------
Min(a, b) == IF a < b THEN a ELSE b

Orderings(S) ==
    { s \in [1 .. Cardinality(S) -> S] :
        \A i, j \in 1 .. Cardinality(S) : i # j => s[i] # s[j] }

\* ORDER BY created_at: rows with equal created_at come in any order
OrderByCreatedAsc(S) ==
    { s \in Orderings(S) :
        \A i, j \in 1 .. Len(s) : i < j => s[i].created_at <= s[j].created_at }

OrderByCreatedDesc(S) ==
    { s \in Orderings(S) :
        \A i, j \in 1 .. Len(s) : i < j => s[i].created_at >= s[j].created_at }

OffsetLimit(s, skip, limit) == SubSeq(s, skip + 1, Min(Len(s), skip + limit))

get_images(p, skip, limit) ==
    /\ Free(p)
    /\ \E s \in OrderByCreatedDesc(images) :
          last' = Response("list", 0, skip, limit, 200, OffsetLimit(s, skip, limit), FALSE)
    /\ seqSave' = NoSeq
    /\ UNCHANGED << images, annotations, blobs, now, nextImageId, nextAnnId,
                    nextPath, pc, req, loc, raced >>

\* ---- POST /images/upload ------------------------------------------------
\* the same step with the except branch falling through to the insert
upload_image_write_fallthrough(p) ==
    /\ Free(p)
    /\ nextPath' = nextPath + 1
    /\ seqSave' = NoSeq
    /\ \/ blobs' = blobs \cup {nextPath}
       \/ blobs' = blobs
    /\ pc' = [pc EXCEPT ![p] = "u_commit"]
    /\ req' = [req EXCEPT ![p] = Request("upload", 0, <<>>)]
    /\ loc' = [loc EXCEPT ![p] = [NoLoc EXCEPT !.path = nextPath]]
    /\ UNCHANGED << images, annotations, now, nextImageId, nextAnnId, last, raced >>

\* steps 1-2: a fresh path, and the write to the bucket, which may fail
upload_image_write(p) ==
    /\ Free(p)
    /\ nextPath' = nextPath + 1
    /\ seqSave' = NoSeq
    /\ \/ /\ blobs' = blobs \cup {nextPath}
          /\ pc' = [pc EXCEPT ![p] = "u_commit"]
          /\ req' = [req EXCEPT ![p] = Request("upload", 0, <<>>)]
          /\ loc' = [loc EXCEPT ![p] = [NoLoc EXCEPT !.path = nextPath]]
          /\ last' = last
       \/ /\ blobs' = blobs
          /\ UNCHANGED << pc, req, loc >>
          /\ last' = Response("upload", 0, 0, 0, 500, <<>>, FALSE)
    /\ UNCHANGED << images, annotations, now, nextImageId, nextAnnId, raced >>

\* steps 3-5: INSERT the Image row and commit; the commit may fail
upload_image_commit(p) ==
    /\ pc[p] = "u_commit"
    /\ seqSave' = NoSeq
    /\ \/ /\ images' = images \cup {ImageRow(nextImageId, loc[p].path, now)}
          /\ nextImageId' = nextImageId + 1
          /\ pc' = [pc EXCEPT ![p] = "u_refresh"]
          /\ loc' = [loc EXCEPT ![p].image = {ImageRow(nextImageId, loc[p].path, now)}]
          /\ UNCHANGED << req, last >>
       \/ /\ images' = images
          /\ nextImageId' = nextImageId
          /\ Return(p)
          /\ last' = Response("upload", 0, 0, 0, 500, <<>>, FALSE)
    /\ UNCHANGED << annotations, blobs, now, nextAnnId, nextPath, raced >>

\* db.refresh re-reads the row just committed, which fails when a delete has
\* removed it meanwhile; then the row is returned
upload_image_refresh(p) ==
    /\ pc[p] = "u_refresh"
    /\ Return(p)
    /\ seqSave' = NoSeq
    /\ last' = IF loc[p].image \subseteq images
               THEN Response("upload", 0, 0, 0, 200,
                             << CHOOSE i \in loc[p].image : TRUE >>, FALSE)
               ELSE Response("upload", 0, 0, 0, 500, <<>>, FALSE)
    /\ UNCHANGED << images, annotations, blobs, now, nextImageId, nextAnnId,
                    nextPath, raced >>

\* ---- DELETE /images/{image_id} ------------------------------------------
\* the same step without the early return
delete_image_find_no_return(p, image_id) ==
    /\ Free(p)
    /\ seqSave' = NoSeq
    /\ req' = [req EXCEPT ![p] = Request("delete", image_id, <<>>)]
    /\ loc' = [loc EXCEPT ![p] =
          [NoLoc EXCEPT !.image = ImagesById(images, image_id)]]
    /\ pc' = [pc EXCEPT ![p] = "d_remove"]
    /\ UNCHANGED << images, annotations, blobs, now, nextImageId, nextAnnId,
                    nextPath, last, raced >>

\* step 1: look the Image up; 404 when there is none
delete_image_find(p, image_id) ==
    /\ Free(p)
    /\ seqSave' = NoSeq
    /\ \/ /\ ImagesById(images, image_id) = {}
          /\ last' = Response("delete", image_id, 0, 0, 404, <<>>, FALSE)
          /\ UNCHANGED << pc, req, loc >>
       \/ /\ ImagesById(images, image_id) # {}
          /\ req' = [req EXCEPT ![p] = Request("delete", image_id, <<>>)]
          /\ loc' = [loc EXCEPT ![p] =
                [NoLoc EXCEPT !.image = ImagesById(images, image_id)]]
          /\ pc' = [pc EXCEPT ![p] = "d_remove"]
          /\ last' = last
    /\ UNCHANGED << images, annotations, blobs, now, nextImageId, nextAnnId,
                    nextPath, raced >>

\* step 2: remove the blob; a failure is printed and the handler goes on
delete_image_remove(p) ==
    /\ pc[p] = "d_remove"
    /\ pc' = [pc EXCEPT ![p] = "d_annotations"]
    /\ seqSave' = NoSeq
    /\ \/ /\ blobs' = blobs \ { i.storage_path : i \in loc[p].image }
          /\ loc' = loc
       \/ /\ blobs' = blobs
          /\ loc' = [loc EXCEPT ![p].warned = TRUE]
    /\ UNCHANGED << images, annotations, now, nextImageId, nextAnnId, nextPath,
                    req, last, raced >>

\* step 3: DELETE FROM annotations WHERE image_id = :id, inside the open
\* transaction; it waits for rows another delete holds locked
delete_image_annotations(p) ==
    /\ pc[p] = "d_annotations"
    /\ { a.id : a \in AnnotationsOf(annotations, req[p].id) } \cap LockedByOthers(p) = {}
    /\ loc' = [loc EXCEPT ![p].delAnn =
          { a.id : a \in AnnotationsOf(annotations, req[p].id) }]
    /\ pc' = [pc EXCEPT ![p] = "d_commit"]
    /\ seqSave' = NoSeq
    /\ UNCHANGED << images, annotations, blobs, now, nextImageId, nextAnnId,
                    nextPath, req, last, raced >>

\* the tables as the delete's unit of work would leave them
AnnotationsAfterDelete(p) == { a \in annotations : a.id \notin loc[p].delAnn }

ImagesAfterDelete(p) == images \ ImagesById(images, req[p].id)

\* steps 4-5 with no foreign key declared on annotations.image_id: the commit
\* goes through whatever was inserted since step 3
delete_image_commit_unchecked(p) ==
    /\ pc[p] = "d_commit"
    /\ Return(p)
    /\ seqSave' = NoSeq
    /\ images' = ImagesAfterDelete(p)
    /\ annotations' = AnnotationsAfterDelete(p)
    /\ last' = Response("delete", req[p].id, 0, 0, 200, <<>>, loc[p].warned)
    /\ UNCHANGED << blobs, now, nextImageId, nextAnnId, nextPath, raced >>

\* steps 4-5: DELETE the Image row and commit.  The commit fails when an
\* annotation of the image was inserted after step 3 (foreign key), or for a
\* reason of the store's own; a failed commit rolls step 3 back.
delete_image_commit(p) ==
    /\ pc[p] = "d_commit"
    /\ Return(p)
    /\ seqSave' = NoSeq
    /\ \E storeFails \in BOOLEAN :
          IF /\ ~ storeFails
             /\ ForeignKeyOk(AnnotationsOf(AnnotationsAfterDelete(p), req[p].id),
                             ImagesAfterDelete(p))
          THEN /\ images' = ImagesAfterDelete(p)
               /\ annotations' = AnnotationsAfterDelete(p)
               /\ last' = Response("delete", req[p].id, 0, 0, 200, <<>>, loc[p].warned)
          ELSE /\ UNCHANGED << images, annotations >>
               /\ last' = Response("delete", req[p].id, 0, 0, 500, <<>>, loc[p].warned)
    /\ UNCHANGED << blobs, now, nextImageId, nextAnnId, nextPath, raced >>

\* ---- GET /annotations/{image_id} ----------------------------------------
\* .first() of a query with no ORDER BY: any row that matches, or none
First(rows) == IF rows = {} THEN { {} } ELSE { {r} : r \in rows }

\* the attributes of a loaded Annotation that save_annotations goes on to use
Loaded(a) == [id |-> a.id, data |-> a.data]

\* what get_annotations may return on the given table
GetResults(anns, image_id) ==
    { IF e = {} THEN <<>> ELSE (CHOOSE a \in e : TRUE).data :
        e \in First(AnnotationsOf(anns, image_id)) }

get_annotations(p, image_id) ==
    /\ Free(p)
    /\ \E d \in GetResults(annotations, image_id) :
          last' = Response("get", image_id, 0, 0, 200, d, FALSE)
    /\ seqSave' = NoSeq
    /\ UNCHANGED << images, annotations, blobs, now, nextImageId, nextAnnId,
                    nextPath, pc, req, loc, raced >>

\* ---- POST /annotations/{image_id} ---------------------------------------
\* INSERTs that saves in flight may still issue
PendingInserts(p) ==
    Cardinality({ q \in Procs \ {p} : pc[q] = "s_commit" /\ loc[q].existing = {} })

\* the query for an existing row; it opens the transaction
save_annotations_query(p, image_id, data) ==
    /\ Free(p)
    /\ \E e \in First(AnnotationsOf(annotations, image_id)) :
          /\ e = {} => nextAnnId + PendingInserts(p) <= MaxAnnotations
          /\ loc' = [loc EXCEPT ![p] =
                [NoLoc EXCEPT !.txStart = now, !.existing = { Loaded(a) : a \in e }]]
    /\ req' = [req EXCEPT ![p] = Request("save", image_id, data)]
    /\ pc' = [pc EXCEPT ![p] = "s_commit"]
    /\ raced' = [raced EXCEPT ![p] = FALSE]
    /\ seqSave' = IF /\ seqSave.by = "none"
                     /\ seqSave.id = image_id
                     /\ seqSave.data = data
                  THEN [seqSave EXCEPT !.by = p]
                  ELSE NoSeq
    /\ UNCHANGED << images, annotations, blobs, now, nextImageId, nextAnnId,
                    nextPath, last >>

\* the saves of the same image still in flight when p's save commits
Overlapping(p) ==
    { q \in Procs \ {p} : pc[q] = "s_commit" /\ req[q].id = req[p].id }

SaveCommitted(p, upd) ==
    /\ last' = Response("save", req[p].id, 0, 0, 200, <<>>, FALSE)
    /\ raced' = [q \in Procs |->
                   IF q \in Overlapping(p) THEN TRUE ELSE IF q = p THEN FALSE ELSE raced[q]]
    /\ seqSave' = [id |-> req[p].id, data |-> req[p].data, upd |-> upd, by |-> "none"]

SaveFailed(p) ==
    /\ last' = Response("save", req[p].id, 0, 0, 500, <<>>, FALSE)
    /\ raced' = [raced EXCEPT ![p] = FALSE]
    /\ seqSave' = NoSeq

\* updated_at of the row with the given id (0 when the row is gone)
UpdatedAt(anns, id) ==
    IF \E a \in anns : a.id = id
    THEN (CHOOSE a \in anns : a.id = id).updated_at
    ELSE 0

\* the row the UPDATE of an existing annotation leaves
Updated(a, data, t) == [a EXCEPT !.data = data, !.updated_at = t]

\* the flush and the commit.  The unit of work
\*   - INSERTs a row when the query found none (the foreign key is checked);
\*   - issues no statement when the row it loaded already holds the data;
\*   - UPDATEs the row it loaded otherwise, waiting while a delete holds the
\*     row locked, and fails when the row is gone by then.
\* updated_at is now(), the time the transaction started.
save_annotations_commit(p) ==
    /\ pc[p] = "s_commit"
    /\ Return(p)
    /\ \/ /\ loc[p].existing = {}
          /\ ForeignKeyOk({AnnotationRow(nextAnnId, req[p].id, req[p].data, loc[p].txStart)},
                          images)
          /\ annotations' = annotations \cup
                {AnnotationRow(nextAnnId, req[p].id, req[p].data, loc[p].txStart)}
          /\ nextAnnId' = nextAnnId + 1
          /\ SaveCommitted(p, loc[p].txStart)
       \/ /\ loc[p].existing = {}
          /\ ~ ForeignKeyOk({AnnotationRow(nextAnnId, req[p].id, req[p].data, loc[p].txStart)},
                            images)
          /\ UNCHANGED << annotations, nextAnnId >>
          /\ SaveFailed(p)
       \/ \E e \in loc[p].existing :
             /\ e.data = req[p].data
             /\ UNCHANGED << annotations, nextAnnId >>
             /\ SaveCommitted(p, UpdatedAt(annotations, e.id))
       \/ \E e \in loc[p].existing :
             /\ e.data # req[p].data
             /\ e.id \notin LockedByOthers(p)
             /\ \E a \in annotations :
                   /\ a.id = e.id
                   /\ annotations' = (annotations \ {a}) \cup
                         {Updated(a, req[p].data, loc[p].txStart)}
             /\ nextAnnId' = nextAnnId
             /\ SaveCommitted(p, loc[p].txStart)
       \/ \E e \in loc[p].existing :
             /\ e.data # req[p].data
             /\ e.id \notin LockedByOthers(p)
             /\ \A a \in annotations : a.id # e.id
             /\ UNCHANGED << annotations, nextAnnId >>
             /\ SaveFailed(p)
       \/ /\ UNCHANGED << annotations, nextAnnId >>
          /\ SaveFailed(p)
    /\ UNCHANGED << images, blobs, now, nextImageId, nextPath >>

\* ---- the clock ----------------------------------------------------------
Tick ==
    /\ now < MaxTime
    /\ now' = now + 1
    /\ UNCHANGED << images, annotations, blobs, nextImageId, nextAnnId, nextPath,
                    pc, req, loc, last, raced, seqSave >>

\* ---- the system ---------------------------------------------------------
Init ==
    /\ images = {}
    /\ annotations = {}
    /\ blobs = {}
    /\ now = 0
    /\ nextImageId = 1
    /\ nextAnnId = 1
    /\ nextPath = 1
    /\ pc = [p \in Procs |-> "idle"]
    /\ req = [p \in Procs |-> NoRequest]
    /\ loc = [p \in Procs |-> NoLoc]
    /\ last = NoResponse
    /\ raced = [p \in Procs |-> FALSE]
    /\ seqSave = NoSeq

\* annotation lifecycle: every handler, over MaxImages uploads
Next ==
    \/ \E p \in Procs : \E skip, limit \in 0 .. MaxLimit : get_images(p, skip, limit)
    \/ \E p \in Procs : nextPath <= MaxImages /\ upload_image_write(p)
    \/ \E p \in Procs : upload_image_commit(p)
    \/ \E p \in Procs : upload_image_refresh(p)
    \/ \E p \in Procs : \E image_id \in 1 .. MaxImages : delete_image_find(p, image_id)
    \/ \E p \in Procs : delete_image_remove(p)
    \/ \E p \in Procs : delete_image_annotations(p)
    \/ \E p \in Procs : delete_image_commit(p)
    \/ \E p \in Procs : \E image_id \in 1 .. MaxImages : get_annotations(p, image_id)
    \/ \E p \in Procs : \E image_id \in 1 .. MaxImages : \E data \in Payloads :
          save_annotations_query(p, image_id, data)
    \/ \E p \in Procs : save_annotations_commit(p)
    \/ Tick

Spec == Init /\ [][Next]_vars

\* image listing: the handlers of the images router, over MaxListed uploads
NextList ==
    \/ \E p \in Procs : \E skip, limit \in 0 .. MaxLimit : get_images(p, skip, limit)
    \/ \E p \in Procs : nextPath <= MaxListed /\ upload_image_write(p)
    \/ \E p \in Procs : upload_image_commit(p)
    \/ \E p \in Procs : upload_image_refresh(p)
    \/ \E p \in Procs : \E image_id \in 1 .. MaxListed : delete_image_find(p, image_id)
    \/ \E p \in Procs : delete_image_remove(p)
    \/ \E p \in Procs : delete_image_annotations(p)
    \/ \E p \in Procs : delete_image_commit(p)
    \/ Tick

SpecList == Init /\ [][NextList]_vars
\* ==== the claims ==========================================================
Idle == \A p \in Procs : pc[p] = "idle"

\* worker p's save_annotations returns success in this step
SaveSucceeds(p) ==
    /\ pc[p] = "s_commit"
    /\ pc'[p] = "idle"
    /\ last'.op = "save"
    /\ last'.status = 200

\* no other request for the image of p's save is in flight, and no other
\* save of it committed while p's save ran
Alone(p) ==
    /\ ~ raced[p]
    /\ \A q \in Procs \ {p} : pc[q] = "idle" \/ req[q].id # req[p].id

\* C1: whenever delete(image_id) has returned success, the Image row with
\* that id and every Annotation row with that image_id are absent, whether
\* the blob removal succeeded or failed (warned).
C1_DeletionComplete ==
    (last.op = "delete" /\ last.status = 200) =>
        /\ ImagesById(images, last.id) = {}
        /\ AnnotationsOf(annotations, last.id) = {}

\* a delete whose blob removal failed has returned success, after an
\* annotation had been saved for the image
C1_Witness ==
    /\ last.op = "delete" /\ last.status = 200 /\ last.warned
    /\ nextAnnId > 1
    /\ blobs # {}

\* C2: a failed blob write ends the upload with a 500, at once and with the
\* Image table as it was; and a row is inserted into the Image table only
\* when the blob of its storage_path has been written.
C2_FailedWriteCreatesNoImage ==
    [][ /\ (nextPath' # nextPath /\ blobs' = blobs) =>
              /\ last'.op = "upload" /\ last'.status = 500
              /\ images' = images
              /\ pc' = pc
        /\ \A r \in images' \ images : r.storage_path \in blobs ]_vars

\* an upload has failed at its blob write beside an Image that is stored:
\* two paths were drawn, one row was ever inserted and is there with its
\* blob, and the bucket holds nothing else
C2_Witness ==
    /\ last.op = "upload" /\ last.status = 500
    /\ nextPath = 3 /\ nextImageId = 2
    /\ \E i \in images : images = {i} /\ blobs = {i.storage_path}
    /\ Idle

\* C3: delete(image_id) of an id with no Image row answers 404 and has no
\* side effect: tables and bucket unchanged, and the handler ends there (no
\* blob removal follows).
C3_DeleteMissingNoSideEffects ==
    [][ \A p \in Procs : \A image_id \in 1 .. MaxImages :
          (delete_image_find(p, image_id) /\ ImagesById(images, image_id) = {}) =>
              /\ last' = Response("delete", image_id, 0, 0, 404, <<>>, FALSE)
              /\ UNCHANGED << images, annotations, blobs >>
              /\ pc' = pc ]_vars

\* a delete has answered 404 for an id whose image had existed, with a
\* blob still in the bucket
C3_Witness ==
    /\ last.op = "delete" /\ last.status = 404
    /\ nextImageId > last.id
    /\ blobs # {}

\* C4: at most one Annotation row exists per image_id, in every reachable
\* state.
C4_AtMostOneAnnotation ==
    \A a, b \in annotations : a.image_id = b.image_id => a = b

\* C5: every Annotation row's image_id is the id of an Image row that
\* exists (no orphan annotations), for every interleaving of save and delete.
C5_NoOrphans ==
    \A a \in annotations : ImagesById(images, a.image_id) # {}

\* a save has inserted an annotation for an image after a delete of that
\* image passed its step 3 and before the delete commits
C5_Witness ==
    \E p \in Procs :
        /\ pc[p] = "d_commit"
        /\ loc[p].delAnn = {}
        /\ AnnotationsOf(annotations, req[p].id) # {}

\* C6: a save(image_id, D) that succeeds, with no other request for that
\* image_id around it, is followed by a get(image_id) that returns D.
C6_RoundTrip ==
    [][ \A p \in Procs :
          (SaveSucceeds(p) /\ Alone(p)) =>
              GetResults(annotations', req[p].id) = { req[p].data } ]_vars

\* C7: save(id, D) called twice in sequence leaves exactly one Annotation
\* row for id, with data D and updated_at not before the updated_at the
\* first call left.
C7_SaveIdempotent ==
    [][ \A p \in Procs :
          (SaveSucceeds(p) /\ seqSave.by = p) =>
              \E a \in annotations' :
                  /\ AnnotationsOf(annotations', req[p].id) = {a}
                  /\ a.data = req[p].data
                  /\ a.updated_at >= seqSave.upd ]_vars

Descending(s, strictly) ==
    \A i, j \in 1 .. Len(s) :
        i < j => IF strictly THEN s[i].created_at > s[j].created_at
                             ELSE s[i].created_at >= s[j].created_at

\* C8: list(skip=0, limit=N) returns at most N Images, strictly descending
\* by created_at.
C8_ListStrictlyDescending ==
    (last.op = "list" /\ last.skip = 0) =>
        /\ Len(last.body) <= last.limit
        /\ Descending(last.body, TRUE)

\* C8 as amended: list(skip=0, limit=N) returns at most N Images, none
\* created after the one before it (Images created at the same timestamp
\* follow each other in either order).
C8_ListDescending ==
    (last.op = "list" /\ last.skip = 0) =>
        /\ Len(last.body) <= last.limit
        /\ Descending(last.body, FALSE)

\* a list has returned two Images of different timestamps while the table
\* holds them
C8_Witness ==
    /\ last.op = "list" /\ last.skip = 0
    /\ Len(last.body) = 2
    /\ last.body[1].created_at > last.body[2].created_at
    /\ \A i \in 1 .. 2 : last.body[i] \in images

\* C9: when two saves of the same image run concurrently and both commit,
\* a get that follows returns the data of the save that committed last.
C9_LastWriteWins ==
    [][ \A p \in Procs :
          (SaveSucceeds(p) /\ raced[p]) =>
              GetResults(annotations', req[p].id) = { req[p].data } ]_vars

\* C10: whenever no request is in progress, every Image row has its blob in
\* the bucket.
C10_NoZombieRecords ==
    Idle => \A i \in images : i.storage_path \in blobs
====
